---- MODULE Spec2Model ----
(***************************************************************************)
(* Model of the users GraphQL server of this repository: the Express       *)
(* server that mounts the express-graphql middleware (users/server.js),    *)
(* the schema built step by step in the README (schema/schema.js: User,    *)
(* Company, RootQueryType, Mutation and their resolvers), the record store *)
(* the resolvers talk to (json-server on port 3000), and the execution of  *)
(* a document against the schema.                                          *)
(*                                                                         *)
(* JSON scalars are kept as their text ("20" is the number 20).  Values    *)
(* that flow through the executor are tagged (Null, Str, Obj, Lst) so that *)
(* values of different shapes can be compared.                             *)
(***************************************************************************)
EXTENDS Integers, Sequences, FiniteSets, TLC

VARIABLES
    server,     \* which server file runs: "users/server.js" or "server.js"
    version,    \* which schema.js the server requires: "none", "memory", "rest"
    db,         \* the users array of the record store (json-server's db.json)
    nextId,     \* how many records the store has created so far
    phase,      \* per request: "idle", "received", "executing", "done", "cancelled"
    doc,        \* per request: index of the document it carries
    node,       \* per request: field occurrence (path) -> state of its resolution
    errors,     \* per request: the errors collected so far, in order
    invoked,    \* per request: field occurrence (path) -> number of resolver calls
    response,   \* per request: the body sent back
    unhandled,  \* number of promise rejections nobody handles
    registry,   \* the type registry the schema file builds when the server starts
    songs,      \* the titles of the songs the Lyrical server has stored, in order
    client,     \* the React/Apollo client: page, cached list, form, requests in flight
    memory      \* the users array of the first schema.js (const users = [...])

vars == <<server, version, db, nextId, phase, doc, node, errors, invoked,
          response, unhandled, registry, songs, client, memory>>

----------------------------------------------------------------------------
(* Bounds *)

MaxReq == 1          \* requests the server receives in a run of Spec
MaxCreate == 1       \* records the store may create (POST /users)
MaxDecls == 3        \* type declarations in a schema file
MaxSongs == 2        \* songs the form may submit in a run of ClientSpec

\* the requests of Spec, and the requests of PeerSpec: one more, so that a
\* request always has a peer
Solo == 1..MaxReq
Reqs == 1..(MaxReq + 1)

----------------------------------------------------------------------------
(* Values *)

Null == [k |-> "null"]
Str(s) == [k |-> "str", s |-> s]
Obj(o) == [k |-> "obj", o |-> o]
Lst(l) == [k |-> "list", l |-> l]

NoArgs == [a \in {} |-> ""]
EmptyRecord == [a \in {} |-> ""]

\* obj[name] in JavaScript: undefined when the property is missing
Get(rec, a) == IF a \in DOMAIN rec THEN rec[a] ELSE "undefined"

\* keys of list elements in a response path
IdxKey(i) == "#" \o ToString(i)
IsIdxKey(key) == \E i \in 1..9 : key = IdxKey(i)

----------------------------------------------------------------------------
(* The schema: schema/schema.js as the README builds it *)

Versions == {"memory", "rest"}

Scalar == [kind |-> "scalar", of |-> "String", nonNull |-> FALSE]
ObjectOf(T) == [kind |-> "object", of |-> T, nonNull |-> FALSE]
ListOf(T) == [kind |-> "list", of |-> T, nonNull |-> FALSE]
NonNull(t) == [t EXCEPT !.nonNull = TRUE]

\* an argument declared with a plain type, and one wrapped in GraphQLNonNull
Optional == [nonNull |-> FALSE]
Required == [nonNull |-> TRUE]
NoArgDefs == [a \in {} |-> Optional]

\* variant: a field that is given the resolve of another field
PlainWithResolve(type) == [type |-> type, args |-> NoArgDefs, resolve |-> "FindUserResolve"]

\* a field with only a type, as in id: { type: GraphQLString }
Plain(type) == [type |-> type, args |-> NoArgDefs, resolve |-> "default"]

\* variant: the type of company wrapped in GraphQLNonNull
UserCompanyFieldNonNull ==
    [type |-> NonNull(ObjectOf("Company")), args |-> NoArgDefs,
     resolve |-> "UserCompanyResolve"]

\* company: { type: CompanyType, resolve(parentValue, args) {...} }
UserCompanyField ==
    [type |-> ObjectOf("Company"), args |-> NoArgDefs, resolve |-> "UserCompanyResolve"]

\* variant: a User type that declares friends
UserTypeFieldsWithFriends(v) ==
    [id |-> Plain(Scalar), firstName |-> Plain(Scalar), age |-> Plain(Scalar),
     company |-> UserCompanyField, friends |-> Plain(ListOf("User"))]

\* const UserType = new GraphQLObjectType({ name: 'User', fields: {...} })
UserTypeFields(v) ==
    IF v = "memory"
    THEN [id |-> Plain(Scalar), firstName |-> Plain(Scalar), age |-> Plain(Scalar)]
    ELSE [id |-> Plain(Scalar), firstName |-> Plain(Scalar), age |-> Plain(Scalar),
          company |-> UserCompanyField]

\* variant: users declared without GraphQLList
CompanyUsersFieldSingle ==
    [type |-> ObjectOf("User"), args |-> NoArgDefs, resolve |-> "CompanyUsersResolve"]

\* users: { type: new GraphQLList(UserType), resolve(parentValue, args) {...} }
CompanyUsersField ==
    [type |-> ListOf("User"), args |-> NoArgDefs, resolve |-> "CompanyUsersResolve"]

\* const CompanyType = new GraphQLObjectType({ name: "Company", fields: () => ({...}) })
CompanyTypeFields(v) ==
    IF v = "memory" THEN <<>>
    ELSE [id |-> Plain(Scalar), name |-> Plain(Scalar), description |-> Plain(Scalar),
          users |-> CompanyUsersField]

\* const RootQuery = new GraphQLObjectType({ name: 'RootQueryType', fields: {...} })
RootQueryFields(v) ==
    IF v = "memory"
    THEN [user |-> [type |-> ObjectOf("User"), args |-> [id |-> Optional],
                    resolve |-> "FindUserResolve"]]
    ELSE [user |-> [type |-> ObjectOf("User"), args |-> [id |-> Optional],
                    resolve |-> "UserResolve"],
          company |-> [type |-> ObjectOf("Company"), args |-> [id |-> Optional],
                       resolve |-> "CompanyResolve"]]

\* variant: age declared without GraphQLNonNull
AddUserArgsAgeOptional ==
    [firstName |-> Required, age |-> Optional, companyId |-> Optional]

\* the args of addUser
AddUserArgs == [firstName |-> Required, age |-> Required, companyId |-> Optional]

\* the args of deleteUser
DeleteUserArgs == [id |-> Required]

\* the args of editUser
EditUserArgs ==
    [id |-> Required, firstName |-> Optional, age |-> Optional, companyId |-> Optional]

\* const mutation = new GraphQLObjectType({ name: "Mutation", fields: {...} })
MutationFields(v) ==
    IF v = "memory" THEN <<>>
    ELSE [addUser |-> [type |-> ObjectOf("User"), args |-> AddUserArgs,
                       resolve |-> "AddUserResolve"],
          deleteUser |-> [type |-> ObjectOf("User"), args |-> DeleteUserArgs,
                          resolve |-> "DeleteUserResolve"],
          editUser |-> [type |-> ObjectOf("User"), args |-> EditUserArgs,
                        resolve |-> "EditUserResolve"]]

\* the field map of a type
TypeFields(v, T) ==
    CASE T = "User" -> UserTypeFields(v)
      [] T = "Company" -> CompanyTypeFields(v)
      [] T = "RootQueryType" -> RootQueryFields(v)
      [] T = "Mutation" -> MutationFields(v)
      [] OTHER -> <<>>

FieldDef(v, T, f) == TypeFields(v, T)[f]
FieldType(v, T, f) == FieldDef(v, T, f).type
RequiredArgs(v, T, f) ==
    {a \in DOMAIN FieldDef(v, T, f).args : FieldDef(v, T, f).args[a].nonNull}

\* module.exports = new GraphQLSchema({ query: RootQuery, mutation })
RootType(v, op) ==
    IF op = "query" THEN "RootQueryType"
    ELSE IF DOMAIN MutationFields(v) # {} THEN "Mutation" ELSE "none"

----------------------------------------------------------------------------
(* The type registry.  A schema file is a sequence of type declarations;   *)
(* each names its type, says whether its field map is a closure (deferred) *)
(* or an object literal (built at once), and names the type its fields     *)
(* refer to.                                                               *)

TypeNames == {"User", "Company"}
Decl(name, deferred, ref) == [name |-> name, deferred |-> deferred, ref |-> ref]
Decls == [name : TypeNames, deferred : BOOLEAN, ref : TypeNames]

\* variant: CompanyType with its fields as an object literal
ReadmeSchemaFileWithoutClosure ==
    << Decl("Company", FALSE, "User"), Decl("User", FALSE, "Company") >>

\* the final schema.js: CompanyType with fields: () => ({... users: UserType ...}),
\* then UserType with fields: {... company: CompanyType ...}
ReadmeSchemaFile ==
    << Decl("Company", TRUE, "User"), Decl("User", FALSE, "Company") >>

SchemaFiles == UNION {[1..n -> Decls] : n \in 1..MaxDecls}

\* the types the root fields refer to: user: { type: UserType, ... }
RootRefs == {"User"}

Registered(reg) == {reg.file[j].name : j \in 1..reg.pos}

NewRegistry(file) == [file |-> file, pos |-> 0, pc |-> "loading", error |-> "none"]

\* lookup by name
Lookup(names, name) == IF name \in names THEN "found" ELSE "UnknownType"

\* variant: a name registered again replaces the earlier registration
RegisterOverwrite(reg) ==
    LET d == reg.file[reg.pos + 1]
    IN IF ~d.deferred /\ Lookup(Registered(reg), d.ref) = "UnknownType"
       THEN [reg EXCEPT !.pc = "failed", !.error = "UnknownType"]
       ELSE [reg EXCEPT !.pos = reg.pos + 1]

\* register the next declaration of the file: the name must be new, and a
\* field map that is built at once looks up the type it refers to
Register(reg) ==
    LET d == reg.file[reg.pos + 1]
    IN IF d.name \in Registered(reg)
       THEN [reg EXCEPT !.pc = "failed", !.error = "DuplicateType"]
       ELSE IF ~d.deferred /\ Lookup(Registered(reg), d.ref) = "UnknownType"
       THEN [reg EXCEPT !.pc = "failed", !.error = "UnknownType"]
       ELSE [reg EXCEPT !.pos = reg.pos + 1]

\* the end of the file: the deferred field maps are produced and the root
\* fields are attached; every type they refer to is looked up
Attach(reg) ==
    LET refs == RootRefs \cup {reg.file[j].ref : j \in {i \in 1..reg.pos : reg.file[i].deferred}}
    IN IF \E name \in refs : Lookup(Registered(reg), name) = "UnknownType"
       THEN [reg EXCEPT !.pc = "failed", !.error = "UnknownType"]
       ELSE [reg EXCEPT !.pc = "ready"]

----------------------------------------------------------------------------
(* The resolvers.  An axios resolver yields the HTTP call it makes and      *)
(* whether the promise of that call is what resolve() returns.              *)

Call(method, coll, id, sub, body) ==
    [method |-> method, coll |-> coll, id |-> id, sub |-> sub, body |-> body]
NoCall == Call("-", "-", "-", "-", EmptyRecord)

\* variant: the call is made but its promise is not returned
UserResolveNotReturned(parentValue, args) ==
    [call |-> Call("GET", "users", Get(args, "id"), "", EmptyRecord),
     returned |-> FALSE]

\* RootQuery.user: axios.get(`http://localhost:3000/users/${args.id}`)
UserResolve(parentValue, args) ==
    [call |-> Call("GET", "users", Get(args, "id"), "", EmptyRecord),
     returned |-> TRUE]

\* RootQuery.company: axios.get(`http://localhost:3000/companies/${args.id}`)
CompanyResolve(parentValue, args) ==
    [call |-> Call("GET", "companies", Get(args, "id"), "", EmptyRecord),
     returned |-> TRUE]

\* User.company: axios.get(`http://localhost:3000/companies/${parentValue.companyId}`)
UserCompanyResolve(parentValue, args) ==
    [call |-> Call("GET", "companies", Get(parentValue, "companyId"), "",
                   EmptyRecord),
     returned |-> TRUE]

\* Company.users: axios.get(`http://localhost:3000/companies/${parentValue.id}/users`)
CompanyUsersResolve(parentValue, args) ==
    [call |-> Call("GET", "companies", Get(parentValue, "id"), "users",
                   EmptyRecord),
     returned |-> TRUE]

\* variant: the company's id is posted too
AddUserBodyWithCompany(args) ==
    [a \in {"firstName", "age"} \cup (DOMAIN args \cap {"companyId"}) |-> Get(args, a)]

\* the object literal { firstName, age } that addUser posts
AddUserBody(args) ==
    [a \in {"firstName", "age"} |-> Get(args, a)]

\* Mutation.addUser: axios.post(`http://localhost:3000/users`, { firstName, age })
AddUserResolve(parentValue, args) ==
    [call |-> Call("POST", "users", "", "", AddUserBody(args)),
     returned |-> TRUE]

\* variant: the delete is sent but its promise is not returned
DeleteUserResolveNotReturned(parentValue, args) ==
    [call |-> Call("DELETE", "users", Get(args, "id"), "", EmptyRecord),
     returned |-> FALSE]

\* Mutation.deleteUser: axios.delete(`http://localhost:3000/users/${args.id}`)
DeleteUserResolve(parentValue, args) ==
    [call |-> Call("DELETE", "users", Get(args, "id"), "", EmptyRecord),
     returned |-> TRUE]

\* variant: the patch is sent but its promise is not returned
EditUserResolveNotReturned(parentValue, args) ==
    [call |-> Call("PATCH", "users", Get(args, "id"), "", args),
     returned |-> FALSE]

\* variant: the edit is sent with PUT
EditUserResolvePut(parentValue, args) ==
    [call |-> Call("PUT", "users", Get(args, "id"), "", args),
     returned |-> TRUE]

\* Mutation.editUser: axios.patch(`http://localhost:3000/users/${args.id}`, args)
EditUserResolve(parentValue, args) ==
    [call |-> Call("PATCH", "users", Get(args, "id"), "", args),
     returned |-> TRUE]

\* the fields of a parent value as a resolver sees them: a string or an
\* undefined parent has no properties
Props(parent) == IF parent.k = "obj" THEN parent.o ELSE EmptyRecord

\* the resolve() a field names, called with the parent value and the arguments
AxiosResolve(resolve, parent, args) ==
    CASE resolve = "UserResolve" -> UserResolve(Props(parent), args)
      [] resolve = "CompanyResolve" -> CompanyResolve(Props(parent), args)
      [] resolve = "UserCompanyResolve" -> UserCompanyResolve(Props(parent), args)
      [] resolve = "CompanyUsersResolve" -> CompanyUsersResolve(Props(parent), args)
      [] resolve = "AddUserResolve" -> AddUserResolve(Props(parent), args)
      [] resolve = "DeleteUserResolve" -> DeleteUserResolve(Props(parent), args)
      [] resolve = "EditUserResolve" -> EditUserResolve(Props(parent), args)

\* .then(resp => resp.data)
RespData(resp) == resp.data

\* Dummy data: const users = [...]
MemoryUsers ==
    << [id |-> "23", firstName |-> "Bill", age |-> "20"],
       [id |-> "47", firstName |-> "Samantha", age |-> "21"] >>

\* _.find(collection, { id }): the first element whose id matches, or undefined
LodashFind(collection, id) ==
    IF \E i \in 1..Len(collection) : Get(collection[i], "id") = id
    THEN LET i == CHOOSE i \in 1..Len(collection) :
                     /\ Get(collection[i], "id") = id
                     /\ \A j \in 1..(i - 1) : Get(collection[j], "id") # id
         IN Obj(collection[i])
    ELSE Null

\* variant: the id is passed to _.find as it is, not as { id: args.id }, and
\* lodash takes it for the name of a property the element must have
FindUserResolveShorthand(parentValue, args) ==
    LET key == Get(args, "id")
        hits == {i \in 1..Len(memory) : key \in DOMAIN memory[i]}
    IN IF hits = {} THEN Null
       ELSE Obj(memory[CHOOSE i \in hits : \A j \in hits : i <= j])

\* RootQuery.user of the first schema: return _.find(users, { id: args.id })
FindUserResolve(parentValue, args) == LodashFind(memory, Get(args, "id"))

\* no resolve() declared: the property of the parent value named like the field
DefaultResolve(parent, f) ==
    IF f \in DOMAIN Props(parent) THEN Str(Props(parent)[f]) ELSE Null

----------------------------------------------------------------------------
(* The record store: json-server serving db.json on port 3000 *)

Companies ==
    << [id |-> "1", name |-> "Apple", description |-> "iphone"],
       [id |-> "2", name |-> "Google", description |-> "search"] >>

\* db.json as the README gives it, and a db.json whose users work for a company
InitialDbs ==
    { << [id |-> "23", firstName |-> "Bill", age |-> "20"],
         [id |-> "40", firstName |-> "Alex", age |-> "40"] >>,
      << [id |-> "40", firstName |-> "Alex", age |-> "40", companyId |-> "1"],
         [id |-> "23", firstName |-> "Bill", age |-> "20", companyId |-> "1"] >> }

\* the id json-server gives to the n-th record it creates
NewId(n) == "new" \o ToString(n)

Ok(data) == [ok |-> TRUE, data |-> data]
NotFound == [ok |-> FALSE, data |-> Str("Request failed with status code 404")]
NetworkError == [ok |-> FALSE, data |-> Str("Network Error")]
NoResp == [ok |-> FALSE, data |-> Null]

HasId(recs, id) == \E i \in 1..Len(recs) : recs[i].id = id
IndexOfId(recs, id) == CHOOSE i \in 1..Len(recs) : recs[i].id = id

RemoveAt(seq, i) == [j \in 1..(Len(seq) - 1) |-> IF j < i THEN seq[j] ELSE seq[j + 1]]

\* PUT: the body replaces the record, the id kept
Put(rec, body) ==
    [a \in {"id"} \cup DOMAIN body |-> IF a = "id" THEN rec.id ELSE body[a]]

\* PATCH: the body's attributes over the record's, the id kept
Patch(rec, body) ==
    [a \in DOMAIN rec \cup DOMAIN body |->
        IF a = "id" THEN rec.id
        ELSE IF a \in DOMAIN body THEN body[a] ELSE rec[a]]

\* what the store answers to a call, and the users array after it.
\* `deleted` is the body of the answer to a successful DELETE.
StoreHandle(call, users, created, deleted) ==
    LET same == [users |-> users, created |-> created] IN
    CASE call.method = "GET" /\ call.coll = "users" ->
            same @@ [resp |-> IF HasId(users, call.id)
                              THEN Ok(Obj(users[IndexOfId(users, call.id)]))
                              ELSE NotFound]
      [] call.method = "GET" /\ call.coll = "companies" /\ call.sub = "" ->
            same @@ [resp |-> IF HasId(Companies, call.id)
                              THEN Ok(Obj(Companies[IndexOfId(Companies, call.id)]))
                              ELSE NotFound]
      [] call.method = "GET" /\ call.coll = "companies" /\ call.sub = "users" ->
            LET InCompany(rec) == Get(rec, "companyId") = call.id
            IN same @@ [resp |-> Ok(Lst(SelectSeq(users, InCompany)))]
      [] call.method = "POST" ->
            LET rec == [a \in DOMAIN call.body \cup {"id"} |->
                          IF a = "id" THEN NewId(created + 1) ELSE call.body[a]]
            IN [users |-> Append(users, rec), created |-> created + 1,
                resp |-> Ok(Obj(rec))]
      [] call.method = "DELETE" ->
            IF HasId(users, call.id)
            THEN [users |-> RemoveAt(users, IndexOfId(users, call.id)),
                  created |-> created, resp |-> Ok(deleted)]
            ELSE same @@ [resp |-> NotFound]
      [] call.method = "PATCH" ->
            IF HasId(users, call.id)
            THEN LET i == IndexOfId(users, call.id)
                     rec == Patch(users[i], call.body)
                 IN [users |-> [users EXCEPT ![i] = rec], created |-> created,
                     resp |-> Ok(Obj(rec))]
            ELSE same @@ [resp |-> NotFound]
      [] call.method = "PUT" ->
            IF HasId(users, call.id)
            THEN LET i == IndexOfId(users, call.id)
                     rec == Put(users[i], call.body)
                 IN [users |-> [users EXCEPT ![i] = rec], created |-> created,
                     resp |-> Ok(Obj(rec))]
            ELSE same @@ [resp |-> NotFound]

\* the body of the answer to DELETE /users/:id: json-server sends {}, the
\* store contract of the specification sends the identifier
DeleteBodies(id) == {Obj(EmptyRecord), Str(id)}

----------------------------------------------------------------------------
(* Documents: the queries and mutations of the README, and their variants *)

Sel(key, name, args, sub) == [key |-> key, name |-> name, args |-> args, sub |-> sub]
Leaf(name) == Sel(name, name, NoArgs, <<>>)
Query(sels) == [op |-> "query", sels |-> sels]
Mutation(sels) == [op |-> "mutation", sels |-> sels]

CompanyDetails == <<Leaf("id"), Leaf("name"), Leaf("description")>>

Docs ==
    << \* 1: { user(id: "23") { id, firstName, age } }
       Query(<<Sel("user", "user", [id |-> "23"],
                   <<Leaf("id"), Leaf("firstName"), Leaf("age")>>)>>),
       \* 2: the same for an id no record has
       Query(<<Sel("user", "user", [id |-> "99"],
                   <<Leaf("id"), Leaf("firstName"), Leaf("age")>>)>>),
       \* 3: query { user(id: "23") { friends { company { name } } } }
       Query(<<Sel("user", "user", [id |-> "23"],
                   <<Sel("friends", "friends", NoArgs,
                         <<Sel("company", "company", NoArgs, <<Leaf("name")>>)>>)>>)>>),
       \* 4: { user(id: "23") { id firstName company { name } } }
       Query(<<Sel("user", "user", [id |-> "23"],
                   <<Leaf("id"), Leaf("firstName"),
                     Sel("company", "company", NoArgs, <<Leaf("name")>>)>>)>>),
       \* 5: { company(id: "1") { name users { id company { name } } } }
       Query(<<Sel("company", "company", [id |-> "1"],
                   <<Leaf("name"),
                     Sel("users", "users", NoArgs,
                         <<Leaf("id"),
                           Sel("company", "company", NoArgs, <<Leaf("name")>>)>>)>>)>>),
       \* 6: { apple: company(id: "1") {...} google: company(id: "2") {...} }
       Query(<<Sel("apple", "company", [id |-> "1"], CompanyDetails),
               Sel("google", "company", [id |-> "2"], CompanyDetails)>>),
       \* 7: mutation { addUser(firstName: "Stephen", age: 26) { id firstName age } }
       \*    with the optional companyId
       Mutation(<<Sel("addUser", "addUser",
                      [firstName |-> "Stephen", age |-> "26", companyId |-> "1"],
                      <<Leaf("id"), Leaf("firstName"), Leaf("age")>>)>>),
       \* 8: addUser without age
       Mutation(<<Sel("addUser", "addUser", [firstName |-> "Stephen"],
                      <<Leaf("id")>>)>>),
       \* 9: mutation { deleteUser(id: "23") { id } }
       Mutation(<<Sel("deleteUser", "deleteUser", [id |-> "23"], <<Leaf("id")>>)>>),
       \* 10: mutation { deleteUser(id: "40") { id } }
       Mutation(<<Sel("deleteUser", "deleteUser", [id |-> "40"], <<Leaf("id")>>)>>),
       \* 11: mutation { editUser(id: "40", firstName: "Steve") { firstName age } }
       Mutation(<<Sel("editUser", "editUser", [id |-> "40", firstName |-> "Steve"],
                      <<Leaf("firstName"), Leaf("age")>>)>>),
       \* 12: two root fields: a delete of an id no record has, then an edit
       Mutation(<<Sel("deleteUser", "deleteUser", [id |-> "99"], <<Leaf("id")>>),
                  Sel("editUser", "editUser", [id |-> "23", age |-> "30"],
                      <<Leaf("id"), Leaf("age")>>)>>)
    >>

DocIds == 1..Len(Docs)

Keys(sels) == {sels[j].key : j \in 1..Len(sels)}
SelOf(sels, key) == sels[CHOOSE j \in 1..Len(sels) : sels[j].key = key]

----------------------------------------------------------------------------
(* Validation of a document against the schema *)

RECURSIVE ValidSels(_, _, _)
ValidSels(v, T, sels) ==
    \A j \in 1..Len(sels) :
        LET s == sels[j] IN
        /\ s.name \in DOMAIN TypeFields(v, T)
        /\ DOMAIN s.args \subseteq DOMAIN FieldDef(v, T, s.name).args
        /\ RequiredArgs(v, T, s.name) \subseteq DOMAIN s.args
        /\ IF FieldType(v, T, s.name).kind = "scalar"
           THEN s.sub = <<>>
           ELSE s.sub # <<>> /\ ValidSels(v, FieldType(v, T, s.name).of, s.sub)

Valid(v, d) ==
    /\ RootType(v, d.op) # "none"
    /\ d.sels # <<>>
    /\ ValidSels(v, RootType(v, d.op), d.sels)

----------------------------------------------------------------------------
(* Execution of a document *)

\* the state of the resolution of one field occurrence
Pending(call) == [st |-> "pending", call |-> call, resp |-> NoResp, val |-> Null]
Detached(call) == [st |-> "detached", call |-> call, resp |-> NoResp, val |-> Null]
Done(val) == [st |-> "done", call |-> NoCall, resp |-> NoResp, val |-> val]
\* the resolver failed: the field is null and the entry keeps the reason
Rejected(message) ==
    [st |-> "done", call |-> NoCall, resp |-> [ok |-> FALSE, data |-> Str(message)],
     val |-> Null]

InFlight(entry) == entry.st \in {"pending", "detached", "abandoned"}
Complete(entry) == entry.st \in {"done", "detached", "abandoned"}

Parent(p) == SubSeq(p, 1, Len(p) - 1)
IsStrictPrefix(a, q) == Len(a) < Len(q) /\ SubSeq(q, 1, Len(a)) = a

\* what one step of the executor adds: entries of field occurrences, errors,
\* the occurrences whose resolver it called, and the occurrences of non-null
\* fields that came out null
Nothing == [n |-> <<>>, e |-> <<>>, i |-> <<>>, b |-> {}]
Merge(x, y) ==
    [n |-> x.n @@ y.n, e |-> x.e \o y.e, i |-> x.i \o y.i, b |-> x.b \cup y.b]
Entry(p, entry) == [n |-> p :> entry, e |-> <<>>, i |-> <<>>, b |-> {}]
NullAt(p, ft) ==
    IF ft.nonNull
    THEN [n |-> p :> Done(Null),
          e |-> <<[path |-> p, message |-> "Cannot return null for non-nullable field"]>>,
          i |-> <<>>, b |-> {p}]
    ELSE Entry(p, Done(Null))
Failed(p, message, ft) ==
    [n |-> p :> Rejected(message), e |-> <<[path |-> p, message |-> message]>>,
     i |-> <<>>, b |-> IF ft.nonNull THEN {p} ELSE {}]
Called(p) == [n |-> <<>>, e |-> <<>>, i |-> <<p>>, b |-> {}]

RECURSIVE ExecuteFields(_, _, _, _, _, _)
RECURSIVE ResolveField(_, _, _, _, _)
RECURSIVE CompleteValue(_, _, _, _, _)
RECURSIVE CompleteList(_, _, _, _, _, _)

\* every selected field of one level, in document order
ExecuteFields(v, T, sels, parent, path, j) ==
    IF j > Len(sels) THEN Nothing
    ELSE Merge(ResolveField(v, T, sels[j], parent, path),
               ExecuteFields(v, T, sels, parent, path, j + 1))

\* calls the resolver of one field occurrence; a resolver that yields a
\* value is completed at once, one that yields a promise stays pending
ResolveField(v, T, s, parent, path) ==
    LET p == Append(path, s.key)
        ft == FieldType(v, T, s.name)
        kind == FieldDef(v, T, s.name).resolve
    IN CASE kind = "default" ->
              Merge(Called(p), CompleteValue(v, ft, s, DefaultResolve(parent, s.name), p))
         [] kind = "FindUserResolve" ->
              Merge(Called(p),
                    CompleteValue(v, ft, s, FindUserResolve(Props(parent), s.args), p))
         [] OTHER ->
              LET r == AxiosResolve(kind, parent, s.args)
              IN IF r.returned
                 THEN Merge(Called(p), Entry(p, Pending(r.call)))
                 ELSE Merge(Called(p),
                            Merge(Entry(p, Detached(r.call)), NullAt(p, ft)))

\* turns the value a resolver yielded into the field's result
CompleteValue(v, ft, s, val, p) ==
    IF val.k = "null" THEN NullAt(p, ft)
    ELSE CASE ft.kind = "scalar" -> Entry(p, Done(val))
           [] ft.kind = "object" ->
                Merge(Entry(p, Done(val)),
                      ExecuteFields(v, ft.of, s.sub, val, p, 1))
           [] ft.kind = "list" ->
                IF val.k # "list"
                THEN Failed(p, "Expected Iterable", ft)
                ELSE Merge(Entry(p, Done(val)),
                           CompleteList(v, ft, s, val.l, p, 1))

\* every element of a list, in the order of the list
CompleteList(v, ft, s, l, p, j) ==
    IF j > Len(l) THEN Nothing
    ELSE Merge(CompleteValue(v, ObjectOf(ft.of), s, Obj(l[j]), Append(p, IdxKey(j))),
               CompleteList(v, ft, s, l, p, j + 1))

\* variant: a call that failed is made again
OutcomeRetry(v, info, entry, p) ==
    IF entry.resp.ok
    THEN CompleteValue(v, info.ft, info.sel, RespData(entry.resp), p)
    ELSE Merge(Called(p), Entry(p, Pending(entry.call)))

\* what the executor does with a settled promise: a fulfilled one gives the
\* field its value, a rejected one gives null and an error at the field's path
Outcome(v, info, entry, p) ==
    IF entry.resp.ok
    THEN CompleteValue(v, info.ft, info.sel, RespData(entry.resp), p)
    ELSE Failed(p, entry.resp.data.s, info.ft)

\* the selection, declared type and enclosing type of the occurrence at path p
RECURSIVE Info(_, _, _, _)
Info(v, T, sels, p) ==
    LET s == SelOf(sels, Head(p))
        ft == FieldType(v, T, s.name)
        rest == Tail(p)
        element == rest # <<>> /\ IsIdxKey(Head(rest))
    IN IF rest = <<>> THEN [sel |-> s, ft |-> ft, T |-> T]
       ELSE IF element /\ Tail(rest) = <<>>
            THEN [sel |-> s, ft |-> ObjectOf(ft.of), T |-> T]
            ELSE Info(v, ft.of, s.sub, IF element THEN Tail(rest) ELSE rest)

InfoAt(v, d, p) == Info(v, RootType(v, d.op), d.sels, p)

\* a null in a non-null position makes the nearest nullable ancestor null;
\* what was resolving below that ancestor no longer counts
RECURSIVE Landing(_, _, _)
Landing(v, d, p) ==
    IF p = <<>> THEN <<>>
    ELSE IF InfoAt(v, d, p).ft.nonNull THEN Landing(v, d, Parent(p)) ELSE p

Abandon(entry) ==
    CASE entry.st = "pending" -> [entry EXCEPT !.st = "abandoned"]
      [] entry.st = "answered" -> Done(Null)
      [] OTHER -> entry

BubbleFrom(v, d, n, origin) ==
    LET a == Landing(v, d, Parent(origin))
    IN [q \in DOMAIN n \cup {a} |->
          IF q = a THEN Done(Null)
          ELSE IF IsStrictPrefix(a, q) THEN Abandon(n[q]) ELSE n[q]]

RECURSIVE ApplyBubbles(_, _, _, _)
ApplyBubbles(v, d, n, origins) ==
    IF origins = {} THEN n
    ELSE LET o == CHOOSE o \in origins : TRUE
         IN ApplyBubbles(v, d, BubbleFrom(v, d, n, o), origins \ {o})

\* the execution state of one request: entries, errors, resolver call counts
NoState == [n |-> <<>>, e |-> <<>>, inv |-> <<>>]

Count(inv, called) ==
    [q \in DOMAIN inv \cup {called[j] : j \in 1..Len(called)} |->
        (IF q \in DOMAIN inv THEN inv[q] ELSE 0)
        + Cardinality({j \in 1..Len(called) : called[j] = q})]

Absorb(v, d, rs, res) ==
    [n |-> ApplyBubbles(v, d, res.n @@ rs.n, res.b),
     e |-> rs.e \o res.e,
     inv |-> Count(rs.inv, res.i)]

SubtreeDone(n, key) ==
    \A q \in DOMAIN n : (q # <<>> /\ q[1] = key) => Complete(n[q])

\* whether root field j may be started now
CanStart(d, n, j) == <<d.sels[j].key>> \notin DOMAIN n

\* mutation root fields run one after the other: the next one starts when
\* the one before it, with all it selects, is complete
RECURSIVE Advance(_, _, _, _)
Advance(v, d, rs, j) ==
    IF j > Len(d.sels) \/ <<>> \in DOMAIN rs.n THEN rs
    ELSE IF CanStart(d, rs.n, j)
         THEN Advance(v, d,
                      Absorb(v, d, rs,
                             ResolveField(v, RootType(v, d.op), d.sels[j], Null, <<>>)),
                      j)
         ELSE IF SubtreeDone(rs.n, d.sels[j].key)
              THEN Advance(v, d, rs, j + 1)
              ELSE rs

\* variant: the root fields of a query run one after the other
BeginSerial(v, d) == Advance(v, d, NoState, 1)

\* query root fields are all started together
Begin(v, d) ==
    IF d.op = "query"
    THEN Absorb(v, d, NoState,
                ExecuteFields(v, RootType(v, d.op), d.sels, Null, <<>>, 1))
    ELSE Advance(v, d, NoState, 1)

\* variant: a request with a failed field is never finished
FinishedWhenAllSucceed(d, n) ==
    /\ \A key \in Keys(d.sels) : <<key>> \in DOMAIN n
    /\ \A q \in DOMAIN n : Complete(n[q]) /\ (n[q].st = "done" => n[q].resp = NoResp)

\* the execution is over when the whole data is null or when every root
\* field is there and nothing is left to wait for
Finished(d, n) ==
    \/ <<>> \in DOMAIN n
    \/ /\ \A key \in Keys(d.sels) : <<key>> \in DOMAIN n
       /\ \A q \in DOMAIN n : Complete(n[q])

\* the nested `data` of the response
RECURSIVE BuildObj(_, _, _, _, _)
RECURSIVE BuildValue(_, _, _, _, _)

\* variant: below the root, the whole resolved record instead of the selection
BuildObjAll(v, T, sels, n, path) ==
    IF path = <<>>
    THEN [key \in Keys(sels) |->
            LET s == SelOf(sels, key)
            IN BuildValue(v, FieldType(v, T, s.name), s, n, Append(path, key))]
    ELSE [a \in DOMAIN Props(n[path].val) |-> Str(Props(n[path].val)[a])]

BuildObj(v, T, sels, n, path) ==
    [key \in Keys(sels) |->
        LET s == SelOf(sels, key)
        IN BuildValue(v, FieldType(v, T, s.name), s, n, Append(path, key))]

BuildValue(v, ft, s, n, p) ==
    IF n[p].st # "done" \/ n[p].val.k = "null" THEN Null
    ELSE CASE ft.kind = "scalar" -> n[p].val
           [] ft.kind = "object" -> Obj(BuildObj(v, ft.of, s.sub, n, p))
           [] ft.kind = "list" ->
                Lst([j \in 1..Len(n[p].val.l) |->
                       BuildValue(v, ObjectOf(ft.of), s, n, Append(p, IdxKey(j)))])

BuildData(v, d, n) ==
    IF <<>> \in DOMAIN n THEN Null
    ELSE Obj(BuildObj(v, RootType(v, d.op), d.sels, n, <<>>))

NoResponse == [kind |-> "none", data |-> Null, errors |-> <<>>]
SchemaError ==
    [kind |-> "SchemaError", data |-> Null,
     errors |-> <<[path |-> <<>>,
                   message |-> "GraphQL middleware options must contain a schema."]>>]
ValidationError ==
    [kind |-> "ValidationError", data |-> Null,
     errors |-> <<[path |-> <<>>, message |-> "ValidationError"]>>]
Result(data, errs) == [kind |-> "result", data |-> data, errors |-> errs]

----------------------------------------------------------------------------
(* The server *)

Servers == {"users/server.js", "server.js"}

\* variant: every server file passes the schema
MountedSchemaAlways(file, v) == v

\* the `schema` option the middleware is mounted with
MountedSchema(file, v) == IF file = "users/server.js" THEN "none" ELSE v

\* the song the Lyrical server has before the client starts
\* (addSong(title: "Cold Night") in GraphiQL)
InitialSongs == << "Cold Night" >>

\* what Apollo's store holds for the song-list query
NoList == [k |-> "none"]
Listed(l) == [k |-> "list", l |-> l]

\* the options SongCreate passes to this.props.mutate
OnSubmitOptions(title) == [variables |-> [title |-> title], refetchQueries |-> TRUE]
NoOptions == [variables |-> [title |-> ""], refetchQueries |-> FALSE]

\* the client before the page is opened: no page, nothing in Apollo's store,
\* no request in flight; submitted, reruns, created and logged count the
\* mutations sent, the re-run queries sent, the redirects and the errors logged
Closed ==
    [page |-> "closed", cache |-> NoList, loading |-> FALSE, fetch |-> "none",
     title |-> "", mutate |-> "none", sent |-> NoOptions, refetch |-> "none",
     submitted |-> 0, reruns |-> 0, created |-> 0, logged |-> 0]

Init ==
    /\ memory = MemoryUsers
    /\ songs = InitialSongs
    /\ client = Closed
    /\ server \in Servers
    /\ version \in Versions
    /\ db \in InitialDbs
    /\ nextId = 0
    /\ phase = [r \in Reqs |-> "idle"]
    /\ doc = [r \in Reqs |-> 0]
    /\ node = [r \in Reqs |-> <<>>]
    /\ errors = [r \in Reqs |-> <<>>]
    /\ invoked = [r \in Reqs |-> <<>>]
    /\ response = [r \in Reqs |-> NoResponse]
    /\ unhandled = 0
    /\ registry = Attach([NewRegistry(ReadmeSchemaFile) EXCEPT !.pos = Len(ReadmeSchemaFile)])

\* a client posts a document to /graphql
Receive(r, d) ==
    /\ registry.pc = "ready"
    /\ phase[r] = "idle"
    /\ r > 1 => phase[r - 1] # "idle"
    /\ phase' = [phase EXCEPT ![r] = "received"]
    /\ doc' = [doc EXCEPT ![r] = d]
    /\ UNCHANGED <<server, version, db, nextId, node, errors, invoked, response,
                   unhandled, registry, songs, client, memory>>

\* the executor stops for now: it answers when nothing is left to wait for
Conclude(r, v, d, rs) ==
    /\ node' = [node EXCEPT ![r] = rs.n]
    /\ errors' = [errors EXCEPT ![r] = rs.e]
    /\ invoked' = [invoked EXCEPT ![r] = rs.inv]
    /\ IF Finished(d, rs.n)
       THEN /\ phase' = [phase EXCEPT ![r] = "done"]
            /\ response' = [response EXCEPT ![r] = Result(BuildData(v, d, rs.n), rs.e)]
       ELSE /\ phase' = [phase EXCEPT ![r] = "executing"]
            /\ UNCHANGED response

\* the middleware takes the request: schema check, validation, and the
\* start of the execution
Handle(r) ==
    /\ phase[r] = "received"
    /\ LET v == MountedSchema(server, version)
           d == Docs[doc[r]]
       IN IF v = "none"
          THEN /\ phase' = [phase EXCEPT ![r] = "done"]
               /\ response' = [response EXCEPT ![r] = SchemaError]
               /\ UNCHANGED <<node, errors, invoked>>
          ELSE IF ~Valid(v, d)
          THEN /\ phase' = [phase EXCEPT ![r] = "done"]
               /\ response' = [response EXCEPT ![r] = ValidationError]
               /\ UNCHANGED <<node, errors, invoked>>
          ELSE Conclude(r, v, d, Begin(v, d))
    /\ UNCHANGED <<server, version, db, nextId, doc, unhandled, registry, songs, client, memory>>

\* the store takes a call that is in flight and answers it
StoreProcess(r, p, deleted) ==
    /\ p \in DOMAIN node[r]
    /\ InFlight(node[r][p])
    /\ LET entry == node[r][p]
           out == StoreHandle(entry.call, db, nextId, deleted)
       IN /\ entry.call.method = "POST" => nextId < MaxCreate
          /\ deleted \in (IF entry.call.method = "DELETE"
                          THEN DeleteBodies(entry.call.id) ELSE {Null})
          /\ db' = out.users
          /\ nextId' = out.created
          /\ node' = [node EXCEPT ![r][p] =
                        IF entry.st = "pending"
                        THEN [entry EXCEPT !.st = "answered", !.resp = out.resp]
                        ELSE Done(Null)]
          /\ unhandled' = IF entry.st = "detached" /\ ~out.resp.ok
                          THEN unhandled + 1 ELSE unhandled
    /\ UNCHANGED <<server, version, phase, doc, errors, invoked, response, registry, songs, client, memory>>

\* a call that is in flight never reaches the store
NetworkFail(r, p) ==
    /\ p \in DOMAIN node[r]
    /\ InFlight(node[r][p])
    /\ LET entry == node[r][p]
       IN /\ node' = [node EXCEPT ![r][p] =
                        IF entry.st = "pending"
                        THEN [entry EXCEPT !.st = "answered", !.resp = NetworkError]
                        ELSE Done(Null)]
          /\ unhandled' = IF entry.st = "detached" THEN unhandled + 1 ELSE unhandled
    /\ UNCHANGED <<server, version, db, nextId, phase, doc, errors, invoked, response,
                   registry, songs, client, memory>>

\* the promise of an answered call settles and the executor goes on from
\* that field occurrence
Settle(r, p) ==
    /\ p \in DOMAIN node[r]
    /\ node[r][p].st = "answered"
    /\ LET v == MountedSchema(server, version)
           d == Docs[doc[r]]
           res == Outcome(v, InfoAt(v, d, p), node[r][p], p)
           rs == Absorb(v, d, [n |-> node[r], e |-> errors[r], inv |-> invoked[r]], res)
       IN Conclude(r, v, d, IF d.op = "mutation" THEN Advance(v, d, rs, 1) ELSE rs)
    /\ UNCHANGED <<server, version, db, nextId, doc, unhandled, registry, songs, client, memory>>

Paths(r) == DOMAIN node[r]

Next ==
    \/ \E r \in Solo, d \in DocIds : Receive(r, d)
    \/ \E r \in Solo : Handle(r)
    \/ \E r \in Solo : \E p \in Paths(r) :
          \E deleted \in DeleteBodies(node[r][p].call.id) \cup {Null} :
             StoreProcess(r, p, deleted)
    \/ \E r \in Solo : \E p \in Paths(r) : NetworkFail(r, p)
    \/ \E r \in Solo : \E p \in Paths(r) : Settle(r, p)

Spec == Init /\ [][Next]_vars

\* the store, or the network, answers some call of request r
Answer(r) ==
    \E p \in Paths(r) :
        \/ \E deleted \in DeleteBodies(node[r][p].call.id) \cup {Null} :
              StoreProcess(r, p, deleted)
        \/ NetworkFail(r, p)

\* a step that no action of the server takes
NoSuchStep ==
    /\ unhandled' = unhandled + 1
    /\ UNCHANGED <<server, version, db, nextId, phase, doc, node, errors, invoked,
                   response, registry, songs, client, memory>>

\* Handle(r), for the fairness of the middleware.  Handle(r) is possible
\* exactly when the request is "received"; the first disjunct states that
\* enabling condition and adds no step to a behaviour of the server.
Taken(r) ==
    \/ phase[r] = "received" /\ NoSuchStep
    \/ Handle(r)

\* Settle(r, p) for some p, for the fairness of the promise callbacks: it
\* is possible exactly when an entry of the request is "answered"
TakenUp(r) ==
    \/ (\E p \in Paths(r) : node[r][p].st = "answered") /\ NoSuchStep
    \/ \E p \in Paths(r) : Settle(r, p)

\* the server under the scheduling of its event loop: a received request is
\* handled, every call is answered in the end (by the store or by a network
\* failure), and a settled promise is taken up
LiveSpec ==
    /\ Spec
    /\ \A r \in Solo : WF_vars(Taken(r))
    /\ \A r \in Solo : WF_vars(Answer(r))
    /\ \A r \in Solo : WF_vars(TakenUp(r))

----------------------------------------------------------------------------
(* Requests side by side: every request of Reqs, each with one of a few    *)
(* documents (a rejected one, a nested query, a create and a delete)       *)

PeerDocs == {3, 4, 7, 9}

PeerNext ==
    \/ \E r \in Reqs, d \in PeerDocs : Receive(r, d)
    \/ \E r \in Reqs : Handle(r)
    \/ \E r \in Reqs : \E p \in Paths(r) :
          \E deleted \in DeleteBodies(node[r][p].call.id) \cup {Null} :
             StoreProcess(r, p, deleted)
    \/ \E r \in Reqs : \E p \in Paths(r) : NetworkFail(r, p)
    \/ \E r \in Reqs : \E p \in Paths(r) : Settle(r, p)

PeerSpec == Init /\ [][PeerNext]_vars

----------------------------------------------------------------------------
(* Cancellation: the transport gives up a request (the client is gone, or  *)
(* the request timed out).  What is outstanding for the request is         *)
(* abandoned: a call that is on its way may still reach the store, but its *)
(* answer goes nowhere.                                                    *)

\* variant: the request is marked cancelled and its execution goes on
CancelKeepsRunning(r) ==
    /\ phase[r] \in {"received", "executing"}
    /\ phase' = [phase EXCEPT ![r] = "cancelled"]
    /\ UNCHANGED <<server, version, db, nextId, doc, node, errors, invoked, response,
                   unhandled, registry, songs, client, memory>>

Cancel(r) ==
    /\ phase[r] \in {"received", "executing"}
    /\ phase' = [phase EXCEPT ![r] = "cancelled"]
    /\ node' = [node EXCEPT ![r] = [p \in DOMAIN node[r] |-> Abandon(node[r][p])]]
    /\ UNCHANGED <<server, version, db, nextId, doc, errors, invoked, response,
                   unhandled, registry, songs, client, memory>>

\* the documents of the requests that may be cancelled: a nested query and
\* a create
CancelDocs == {4, 7}

CancelNext ==
    \/ \E r \in Reqs, d \in CancelDocs : Receive(r, d)
    \/ \E r \in Reqs : Handle(r)
    \/ \E r \in Reqs : Answer(r)
    \/ \E r \in Reqs : \E p \in Paths(r) : Settle(r, p)
    \/ \E r \in Reqs : Cancel(r)

\* the requests side by side, with cancellation, under the scheduling of the
\* event loop; nothing forces a cancellation
CancelSpec ==
    /\ Init /\ [][CancelNext]_vars
    /\ \A r \in Reqs : WF_vars(Taken(r))
    /\ \A r \in Reqs : WF_vars(Answer(r))
    /\ \A r \in Reqs : WF_vars(TakenUp(r))

----------------------------------------------------------------------------
(* The start of the server: the schema file is loaded declaration by       *)
(* declaration, and the server takes requests once the registry is ready   *)

StartInit ==
    /\ memory = MemoryUsers
    /\ songs = InitialSongs
    /\ client = Closed
    /\ server = "server.js"
    /\ version = "rest"
    /\ db \in InitialDbs
    /\ nextId = 0
    /\ phase = [r \in Reqs |-> "idle"]
    /\ doc = [r \in Reqs |-> 0]
    /\ node = [r \in Reqs |-> <<>>]
    /\ errors = [r \in Reqs |-> <<>>]
    /\ invoked = [r \in Reqs |-> <<>>]
    /\ response = [r \in Reqs |-> NoResponse]
    /\ unhandled = 0
    /\ \E file \in SchemaFiles : registry = NewRegistry(file)

RegisterNext ==
    /\ registry.pc = "loading"
    /\ registry.pos < Len(registry.file)
    /\ registry' = Register(registry)
    /\ UNCHANGED <<server, version, db, nextId, phase, doc, node, errors, invoked,
                   response, unhandled, songs, client, memory>>

AttachFields ==
    /\ registry.pc = "loading"
    /\ registry.pos = Len(registry.file)
    /\ registry' = Attach(registry)
    /\ UNCHANGED <<server, version, db, nextId, phase, doc, node, errors, invoked,
                   response, unhandled, songs, client, memory>>

StartNext ==
    \/ RegisterNext
    \/ AttachFields
    \/ \E r \in Solo, d \in DocIds : Receive(r, d)

StartSpec == StartInit /\ [][StartNext]_vars


----------------------------------------------------------------------------
(* The client: SongList at "/", SongCreate with its form, Apollo's store   *)
(* between them and the Lyrical server                                      *)

\* the titles typed into the form
Titles == {"Dog Call", "Sprite vs Coke"}

\* graphql(query)(SongList) mounts: Apollo does not fetch again what its
\* store already has; otherwise the query is sent and data.loading is true
MountList(c) ==
    IF c.cache.k = "list"
    THEN [c EXCEPT !.page = "list", !.loading = FALSE]
    ELSE [c EXCEPT !.page = "list", !.loading = TRUE, !.fetch = "sent"]

\* SongCreate mounts with an empty title
MountCreate(c) == [c EXCEPT !.page = "create", !.title = ""]

\* SongList.render(): "Loading..." while data.loading, then data.songs
Loading == [k |-> "loading"]
Shown ==
    IF client.page # "list" THEN NoList
    ELSE IF client.loading THEN Loading
    ELSE client.cache

ClientStep(c) ==
    /\ client' = c
    /\ UNCHANGED <<server, version, db, nextId, phase, doc, node, errors, invoked,
                   response, unhandled, registry, songs, memory>>

\* the app is opened at the list page or at the form
Open(page) ==
    /\ client.page = "closed"
    /\ ClientStep(IF page = "list" THEN MountList(client) ELSE MountCreate(client))

\* the server answers SongList's query
FetchAnswer ==
    /\ client.fetch = "sent"
    /\ ClientStep([client EXCEPT !.fetch = "none", !.loading = FALSE,
                                  !.cache = Listed(songs)])

\* the Link from the list to the form
GoCreate ==
    /\ client.page = "list"
    /\ ClientStep(MountCreate(client))

\* the input's onChange: this.setState({ title })
Type(t) ==
    /\ client.page = "create"
    /\ client.title # t
    /\ ClientStep([client EXCEPT !.title = t])

\* SongCreate.onSubmit: this.props.mutate({ variables: { title },
\* refetchQueries: [{ query }] })
Submit ==
    /\ client.page = "create"
    /\ client.mutate = "none"
    /\ client.submitted < MaxSongs
    /\ ClientStep([client EXCEPT !.mutate = "sent",
                                  !.sent = OnSubmitOptions(client.title),
                                  !.submitted = @ + 1])

\* the Lyrical server runs addSong: the song is stored, the answer is on its way
AddSong ==
    /\ client.mutate = "sent"
    /\ songs' = Append(songs, client.sent.variables.title)
    /\ client' = [client EXCEPT !.mutate = "stored"]
    /\ UNCHANGED <<server, version, db, nextId, phase, doc, node, errors, invoked,
                   response, unhandled, registry, memory>>

\* the mutation's answer arrives: Apollo sends the queries of refetchQueries
\* and the promise of mutate is fulfilled
MutateAnswer ==
    /\ client.mutate = "stored"
    /\ ClientStep(IF client.sent.refetchQueries
                  THEN [client EXCEPT !.mutate = "fulfilled", !.refetch = "sent",
                                      !.reruns = @ + 1]
                  ELSE [client EXCEPT !.mutate = "fulfilled"])

\* the request or its answer is lost: the promise is rejected and
\* .catch(e => console.error(e)) runs
MutateFail ==
    /\ client.mutate \in {"sent", "stored"}
    /\ ClientStep([client EXCEPT !.mutate = "none", !.logged = @ + 1])

\* .then(() => hashHistory.push('/'))
Redirect ==
    /\ client.mutate = "fulfilled"
    /\ ClientStep([MountList(client) EXCEPT !.mutate = "none", !.created = @ + 1])

\* the server answers the re-run query: the result goes to Apollo's store
RefetchAnswer ==
    /\ client.refetch = "sent"
    /\ ClientStep([client EXCEPT !.refetch = "none", !.cache = Listed(songs)])

\* the re-run query or its answer is lost
RefetchFail ==
    /\ client.refetch = "sent"
    /\ ClientStep([client EXCEPT !.refetch = "none"])

ClientNext ==
    \/ \E page \in {"list", "create"} : Open(page)
    \/ FetchAnswer
    \/ GoCreate
    \/ \E t \in Titles : Type(t)
    \/ Submit
    \/ AddSong
    \/ MutateAnswer
    \/ MutateFail
    \/ Redirect
    \/ RefetchAnswer
    \/ RefetchFail

\* the client's runs: the user-facing server plays no part in them
ClientInit ==
    /\ Init
    /\ server = "server.js"
    /\ version = "rest"
    /\ db = CHOOSE d \in InitialDbs : TRUE

ClientSpec == ClientInit /\ [][ClientNext]_vars

----------------------------------------------------------------------------
(* Properties *)

\* the schema the running server executes against
V == MountedSchema(server, version)
DocOf(r) == Docs[doc[r]]
Started(r) == phase[r] \in {"executing", "done"}
Answered(r) == phase[r] = "done" /\ response[r].kind = "result"

Missing == [k |-> "missing", at |-> "data", why |-> "absent"]
IdxOf(key) == CHOOSE i \in 1..9 : IdxKey(i) = key

\* the part of a response's data found at a path
RECURSIVE DataAt(_, _)
DataAt(data, p) ==
    IF p = <<>> THEN data
    ELSE IF data.k = "obj"
         THEN IF Head(p) \in DOMAIN data.o THEN DataAt(data.o[Head(p)], Tail(p))
              ELSE Missing
    ELSE IF data.k = "list"
         THEN IF IsIdxKey(Head(p)) /\ IdxOf(Head(p)) <= Len(data.l)
              THEN DataAt(data.l[IdxOf(Head(p))], Tail(p))
              ELSE Missing
    ELSE Missing

\* the selection set the occurrence at path p belongs to
LevelOf(v, d, p) ==
    IF Len(p) = 1 THEN d.sels
    ELSE InfoAt(v, d, Parent(p)).sel.sub

SiblingPaths(v, d, p) ==
    {Append(Parent(p), key) : key \in Keys(LevelOf(v, d, p)) \ {p[Len(p)]}}

\* a resolver failed at p: the entry keeps the rejection
RejectedAt(r, p) == node[r][p].st = "done" /\ node[r][p].resp # NoResp

(* C1 *)

\* a mutation document that calls a root field without an argument the
\* schema file wraps in GraphQLNonNull
OmitsRequired(d) ==
    /\ d.op = "mutation"
    /\ \E j \in 1..Len(d.sels) :
          \/ d.sels[j].name = "addUser"
             /\ ~({"firstName", "age"} \subseteq DOMAIN d.sels[j].args)
          \/ d.sels[j].name \in {"deleteUser", "editUser"}
             /\ "id" \notin DOMAIN d.sels[j].args

C1_Rejected ==
    \A r \in Reqs :
        (doc[r] # 0 /\ V # "none" /\ OmitsRequired(DocOf(r)) /\ Started(r)) =>
            /\ phase[r] = "done"
            /\ response[r].kind = "ValidationError"
            /\ node[r] = <<>>
            /\ invoked[r] = <<>>

C1_NoSideEffect ==
    \A r \in Reqs :
        (/\ phase[r] = "received" /\ phase'[r] # "received"
         /\ V # "none" /\ OmitsRequired(DocOf(r))) =>
            db' = db /\ nextId' = nextId

\* C1: a root field called without a required argument (addUser without age)
\* ends the request with a ValidationError; no resolver of the request is
\* invoked, no call to the store is made and the store is unchanged.
C1_RequiredArgumentMissing == [](C1_Rejected) /\ [][C1_NoSideEffect]_vars

C1_Witness ==
    \E r \in Reqs :
        /\ phase[r] = "done" /\ doc[r] = 8 /\ V = "rest"
        /\ response[r].kind = "ValidationError"

(* C2 *)

IsDeleteWithId(d) ==
    /\ d.op = "mutation" /\ Len(d.sels) = 1
    /\ d.sels[1].name = "deleteUser"
    /\ d.sels[1].sub = <<Leaf("id")>>

\* C2: deleteUser(id) { id } on an existing record returns a result whose id
\* is the deleted identifier, and the record is gone from the store.
C2_DeleteReturnsId ==
    \A r \in Reqs :
        (Answered(r) /\ IsDeleteWithId(DocOf(r)) /\ response[r].errors = <<>>) =>
            /\ DataAt(response[r].data, <<"deleteUser", "id">>)
                 = Str(DocOf(r).sels[1].args.id)
            /\ ~HasId(db, DocOf(r).sels[1].args.id)

(* C3 *)

C3_Scoped(r, i) ==
    LET p == response[r].errors[i].path
        data == response[r].data
    IN /\ DataAt(data, p) = Null
       /\ Cardinality({j \in DOMAIN response[r].errors :
                          response[r].errors[j].path = p}) = 1
       /\ \A q \in SiblingPaths(V, DocOf(r), p) :
             /\ q \in DOMAIN node[r]
             /\ node[r][q].st = "done"
             /\ DataAt(data, q) # Missing
             /\ node[r][q].val # Null => DataAt(data, q) # Null
             /\ node[r][q].val.k = "str" => DataAt(data, q) = node[r][q].val
             /\ (\E j \in DOMAIN response[r].errors : response[r].errors[j].path = q)
                   => RejectedAt(r, q)

\* C3: when the resolver of a selected field fails, the error is recorded at
\* that field's path only; the field is null in data, every sibling of the
\* same level is resolved and its value is in data, next to the errors entry.
C3_PartialFailure ==
    \A r \in Reqs :
        Answered(r) =>
            \A i \in DOMAIN response[r].errors :
                /\ response[r].data # Null
                /\ C3_Scoped(r, i)

C3_Witness ==
    \E r \in Reqs :
        /\ Answered(r) /\ doc[r] = 4
        /\ Len(response[r].errors) = 1
        /\ response[r].errors[1].path = <<"user", "company">>
        /\ DataAt(response[r].data, <<"user", "id">>) = Str("23")
        /\ DataAt(response[r].data, <<"user", "firstName">>) = Str("Bill")

(* C4 *)

\* C4: no resolver outcome leaves a failure unhandled: every rejected
\* resolver has an errors entry with the path of its field, and a valid
\* document is always answered with a result.
C4_FailuresCaptured ==
    /\ unhandled = 0
    /\ \A r \in Reqs :
          /\ \A p \in DOMAIN node[r] :
                RejectedAt(r, p) =>
                    \E i \in DOMAIN errors[r] :
                        errors[r][i] = [path |-> p, message |-> node[r][p].resp.data.s]
          /\ (phase[r] = "done" /\ V # "none" /\ Valid(V, DocOf(r))) =>
                /\ response[r].kind = "result"
                /\ response[r].errors = errors[r]

C4_Witness ==
    \E r \in Reqs :
        /\ Answered(r) /\ unhandled = 0
        /\ \E p \in DOMAIN node[r] :
              /\ RejectedAt(r, p)
              /\ node[r][p].resp.data = Str("Network Error")
        /\ \E p \in DOMAIN node[r] :
              /\ RejectedAt(r, p)
              /\ node[r][p].resp.data = Str("Request failed with status code 404")

(* C5 *)

C5_SameOrder(out, src, sels) ==
    /\ out.k = "list"
    /\ Len(out.l) = Len(src)
    /\ \A i \in 1..Len(src) :
          /\ out.l[i].k = "obj"
          /\ "id" \in Keys(sels) => DataAt(out.l[i], <<"id">>) = Str(src[i].id)

\* C5: the output of a list field has the length and the element order of
\* the list its resolver returned, in whatever order the elements' own
\* sub-fields were resolved.
C5_ListOrder ==
    \A r \in Reqs :
        Answered(r) =>
            \A p \in DOMAIN node[r] :
                (node[r][p].st = "done" /\ node[r][p].val.k = "list") =>
                    C5_SameOrder(DataAt(response[r].data, p), node[r][p].val.l,
                                 InfoAt(V, DocOf(r), p).sel.sub)

\* a list of two, the second element's company settled before the first's
C5_Witness ==
    \E r \in Reqs :
        /\ Answered(r) /\ doc[r] = 5
        /\ DataAt(response[r].data, <<"company", "users">>).k = "list"
        /\ Len(DataAt(response[r].data, <<"company", "users">>).l) = 2
        /\ Len(response[r].errors) = 2
        /\ response[r].errors[1].path = <<"company", "users", "#2", "company">>
        /\ response[r].errors[2].path = <<"company", "users", "#1", "company">>

(* C6 *)

RECURSIVE Mirrors(_, _, _)
Mirrors(data, sels, nullable) ==
    /\ data.k = "obj"
    /\ DOMAIN data.o = Keys(sels)
    /\ \A key \in Keys(sels) :
          LET sub == SelOf(sels, key).sub
              x == data.o[key]
          IN sub # <<>> =>
                IF nullable /\ x.k = "null" THEN TRUE
                ELSE IF x.k = "list"
                THEN \A i \in 1..Len(x.l) : Mirrors(x.l[i], sub, nullable)
                ELSE Mirrors(x, sub, nullable)

Successful(r) == Answered(r) /\ response[r].errors = <<>>

C7_InvokedOnce ==
    \A r \in Reqs :
        /\ \A p \in DOMAIN invoked[r] : invoked[r][p] <= 1
        /\ (Answered(r) /\ DocOf(r).op = "mutation") =>
              \A key \in Keys(DocOf(r).sels) :
                  /\ <<key>> \in DOMAIN invoked[r]
                  /\ invoked[r][<<key>>] = 1

C7_Witness ==
    \E r \in Reqs :
        /\ Answered(r) /\ doc[r] = 12
        /\ invoked[r][<<"deleteUser">>] = 1
        /\ invoked[r][<<"editUser">>] = 1
        /\ RejectedAt(r, <<"deleteUser">>)

(* C8 *)

C8_Step ==
    LET reg == registry
        next == reg.file[reg.pos + 1]
        loading == reg.pc = "loading" /\ reg.pos < Len(reg.file)
    IN /\ (loading /\ next.name \in Registered(reg)) =>
              registry'.pc = "failed" /\ registry'.error = "DuplicateType"
       /\ (loading /\ next.name \notin Registered(reg) /\ ~next.deferred
             /\ next.ref \notin Registered(reg)) =>
              registry'.pc = "failed" /\ registry'.error = "UnknownType"
       /\ (reg.pc = "loading" /\ reg.pos = Len(reg.file)
             /\ ~(RootRefs \subseteq Registered(reg))) =>
              registry'.pc = "failed" /\ registry'.error = "UnknownType"
       /\ reg.pc # "failed"

\* C8: registering a name that is already registered fails with
\* DuplicateType, looking up a name that is not registered fails with
\* UnknownType, and after either failure the start stops: the registry never
\* becomes ready and the server takes no request.
C8_RegistryFailures ==
    /\ [][C8_Step]_vars
    /\ [](registry.pc = "failed" => \A r \in Reqs : phase[r] = "idle")

C8_Witness ==
    /\ registry.pc = "failed"
    /\ registry.error = "DuplicateType"
    /\ registry.pos = 2

(* C9 *)

\* the document that selects friends on User
SelectsFriends(r) == doc[r] = 3

C9_Rejected ==
    \A r \in Reqs :
        (SelectsFriends(r) /\ V # "none" /\ Started(r)) =>
            /\ phase[r] = "done"
            /\ response[r].kind = "ValidationError"
            /\ node[r] = <<>>
            /\ invoked[r] = <<>>

C9_OthersUntouched ==
    \A r \in Reqs :
        (/\ phase[r] = "received" /\ phase'[r] # "received"
         /\ SelectsFriends(r) /\ V # "none") =>
            /\ \A q \in Reqs \ {r} :
                  /\ phase'[q] = phase[q]
                  /\ node'[q] = node[q]
                  /\ errors'[q] = errors[q]
                  /\ invoked'[q] = invoked[q]
                  /\ response'[q] = response[q]
            /\ db' = db
            /\ unhandled' = unhandled

\* C9: a document that selects a field its type does not declare (friends
\* on User) ends with a ValidationError, none of its resolvers is invoked,
\* and the step that rejects it changes nothing of any other request.
C9_UnknownField == [](C9_Rejected) /\ [][C9_OthersUntouched]_vars

\* the document is rejected while a peer has a call to the store in flight
C9_Witness ==
    \E r \in Reqs, q \in Reqs :
        /\ q < r
        /\ SelectsFriends(r) /\ V = "rest"
        /\ phase[r] = "done" /\ response[r].kind = "ValidationError"
        /\ phase[q] = "executing"
        /\ \E p \in DOMAIN node[q] : InFlight(node[q][p])

(* C10 *)

\* C10: the server of users/server.js, which mounts the middleware without
\* a schema, answers every request with a schema error and never starts an
\* execution or sends data.
C10_SchemaError ==
    server = "users/server.js" =>
        \A r \in Reqs :
            /\ phase[r] # "executing"
            /\ node[r] = <<>>
            /\ phase[r] = "done" =>
                  /\ response[r].kind = "SchemaError"
                  /\ response[r].data = Null

C10_Witness ==
    /\ server = "users/server.js"
    /\ \E r \in Reqs : phase[r] = "done" /\ response[r].kind = "SchemaError"

(* C11 *)

\* the fields User declares with a type only
UserAttributes == {"id", "firstName", "age"}

\* the attribute of a value that is named like the field; a value without
\* that attribute (or that is no object) gives null
AttributeOf(value, f) ==
    IF value.k = "obj" /\ f \in DOMAIN value.o THEN Str(value.o[f]) ELSE Null

\* C11: a selected field of User that declares no resolver (id, firstName,
\* age) resolves to the attribute of the parent value that has the field's
\* name, whatever the parent value is, and the response carries that value.
C11_DefaultResolver ==
    \A r \in Reqs :
        \A p \in DOMAIN node[r] :
            (/\ Len(p) > 1
             /\ InfoAt(V, DocOf(r), p).T = "User"
             /\ InfoAt(V, DocOf(r), p).sel.name \in UserAttributes
             /\ Parent(p) \in DOMAIN node[r]
             /\ node[r][Parent(p)].st = "done") =>
                LET f == InfoAt(V, DocOf(r), p).sel.name
                    expected == AttributeOf(node[r][Parent(p)].val, f)
                IN /\ node[r][p].st = "done"
                   /\ node[r][p].val = expected
                   /\ invoked[r][p] = 1
                   /\ Answered(r) => DataAt(response[r].data, p) = expected

\* the attributes of the record the store returned are what the fields give
C11_Witness ==
    /\ \E r \in Reqs :
          /\ Answered(r) /\ doc[r] = 1 /\ V = "rest"
          /\ node[r][<<"user">>].val = Obj([id |-> "23", firstName |-> "Bill", age |-> "20"])
          /\ DataAt(response[r].data, <<"user", "firstName">>) = Str("Bill")
          /\ DataAt(response[r].data, <<"user", "age">>) = Str("20")

(* C12 *)

\* an identifier no record of the store ever has
NeverStored(id) ==
    /\ \A users \in InitialDbs : ~HasId(users, id)
    /\ \A n \in 1..(MaxCreate + 1) : id # NewId(n)

ErrorsAt(r, p) == {i \in DOMAIN response[r].errors : response[r].errors[i].path = p}

\* the answer to a deleteUser whose identifier the store does not have
C12_StoreStep ==
    \A r \in Reqs :
        \A p \in DOMAIN node[r] :
            (/\ node[r][p].st = "pending"
             /\ InfoAt(V, DocOf(r), p).sel.name = "deleteUser"
             /\ ~HasId(db, node[r][p].call.id)
             /\ node'[r][p].st # "pending") =>
                /\ node'[r][p].st = "answered"
                /\ ~node'[r][p].resp.ok
                /\ db' = db
                /\ nextId' = nextId

C12_Scoped ==
    \A r \in Reqs :
        (Answered(r) /\ DocOf(r).op = "mutation") =>
            \A j \in 1..Len(DocOf(r).sels) :
                LET s == DocOf(r).sels[j]
                    others == Keys(DocOf(r).sels) \ {s.key}
                IN (s.name = "deleteUser" /\ NeverStored(s.args.id)) =>
                      /\ RejectedAt(r, <<s.key>>)
                      /\ Cardinality(ErrorsAt(r, <<s.key>>)) = 1
                      /\ DataAt(response[r].data, <<s.key>>) = Null
                      /\ \A key \in others :
                            /\ <<key>> \in DOMAIN invoked[r]
                            /\ invoked[r][<<key>>] = 1
                            /\ DataAt(response[r].data, <<key>>) # Missing
                            /\ ErrorsAt(r, <<key>>) = {} =>
                                  /\ node[r][<<key>>].val # Null
                                  /\ DataAt(response[r].data, <<key>>) # Null

\* C12: deleteUser with an identifier the store does not have ends as one
\* error at that field's path with the field null; the store's answer changes
\* no record, and the other root fields of the document are still run and
\* their results are in data.
C12_DeleteAbsent == [](C12_Scoped) /\ [][C12_StoreStep]_vars

C12_Witness ==
    \E r \in Reqs :
        /\ Answered(r) /\ doc[r] = 12
        /\ Len(response[r].errors) = 1
        /\ response[r].errors[1] =
              [path |-> <<"deleteUser">>, message |-> "Request failed with status code 404"]
        /\ DataAt(response[r].data, <<"editUser">>) = Obj([id |-> Str("23"), age |-> Str("30")])
        /\ Len(db) = 2
        /\ \E i \in 1..Len(db) : db[i].id = "23" /\ db[i].age = "30"

(* C13 *)

\* the step that produces the response of a mutation
C13_ResponseStep ==
    \A r \in Reqs :
        (/\ phase[r] # "done" /\ phase'[r] = "done"
         /\ response'[r].kind = "result"
         /\ DocOf(r).op = "mutation") =>
            /\ \A key \in Keys(DocOf(r).sels) :
                  /\ <<key>> \in DOMAIN node[r]
                  /\ node[r][<<key>>].st \in {"answered", "done"}
                  /\ node'[r][<<key>>].st = "done"
                  /\ invoked'[r][<<key>>] = 1
            /\ db' = db
            /\ nextId' = nextId

\* nothing of an answered mutation is still on its way to the store
C13_Settled ==
    \A r \in Reqs :
        (Answered(r) /\ DocOf(r).op = "mutation") =>
            \A p \in DOMAIN node[r] : node[r][p].st = "done"

\* C13: the response of a mutation is produced only when the store call of
\* every root field has been made and has been answered (or has failed): at
\* the step that produces the response no call of the request is outstanding
\* and the step itself does not touch the store.
C13_StoreBeforeResponse == [](C13_Settled) /\ [][C13_ResponseStep]_vars

\* the edit is in the store when the response with the edited record exists
C13_Witness ==
    \E r \in Reqs :
        /\ Answered(r) /\ doc[r] = 11 /\ response[r].errors = <<>>
        /\ DataAt(response[r].data, <<"editUser", "firstName">>) = Str("Steve")
        /\ \E i \in 1..Len(db) : db[i].id = "40" /\ db[i].firstName = "Steve"

(* C14 *)

Terminal(r) ==
    /\ phase[r] = "done"
    /\ \/ response[r].kind = "result"
       \/ response[r].kind \in {"ValidationError", "SchemaError"}
          /\ response[r].data = Null /\ response[r].errors # <<>>

C14_Eventually == \A r \in Reqs : (phase[r] = "received") ~> Terminal(r)

C14_Once ==
    \A r \in Reqs :
        /\ phase[r] # "done" => response[r] = NoResponse
        /\ phase[r] = "done" => phase'[r] = "done" /\ response'[r] = response[r]

\* C14: when every call is answered in the end, every received document
\* reaches a terminal state, a result or a failure, and reaches it once: the
\* response, once there, never changes.  The documents include the one that
\* goes round the cycle of the types (company, its users, their company).
C14_Terminates == C14_Eventually /\ [][C14_Once]_vars

\* the document that goes round the cycle has its result
C14_Witness ==
    \E r \in Reqs :
        /\ Answered(r) /\ doc[r] = 5 /\ response[r].errors = <<>>
        /\ Len(DataAt(response[r].data, <<"company", "users">>).l) = 2
        /\ DataAt(response[r].data, <<"company", "users", "#1", "company", "name">>)
              = Str("Apple")
        /\ DataAt(response[r].data, <<"company", "users", "#2", "company", "name">>)
              = Str("Apple")

(* C15 *)

\* the fields that run side by side: all but the root fields of a mutation
SideBySide(r, p) == DocOf(r).op = "query" \/ Len(p) > 1

Over(r) == phase[r] \in {"done", "cancelled"}

\* nothing outstanding of a cancelled request is waited for, and it has no
\* response
C16_Abandoned ==
    \A r \in Reqs :
        phase[r] = "cancelled" =>
            /\ response[r] = NoResponse
            /\ \A p \in DOMAIN node[r] : node[r][p].st \in {"abandoned", "done"}

\* a cancelled request stays cancelled and nothing is added to it; the step
\* that cancels it leaves every other request and the store as they are
C16_Step ==
    \A r \in Reqs :
        /\ phase[r] = "cancelled" =>
              /\ phase'[r] = "cancelled"
              /\ response'[r] = response[r]
              /\ errors'[r] = errors[r]
              /\ invoked'[r] = invoked[r]
              /\ DOMAIN node'[r] = DOMAIN node[r]
        /\ (phase[r] # "cancelled" /\ phase'[r] = "cancelled") =>
              /\ db' = db /\ nextId' = nextId
              /\ \A q \in Reqs \ {r} :
                    /\ phase'[q] = phase[q] /\ node'[q] = node[q]
                    /\ errors'[q] = errors[q] /\ invoked'[q] = invoked[q]
                    /\ response'[q] = response[q]

\* a request that is received, before or after another was cancelled, comes
\* to its end
C16_OthersEnd == \A q \in Reqs : (phase[q] = "received") ~> Over(q)

\* C16: when the transport cancels a request, what is outstanding of it is
\* abandoned: the request gets no response and no answer to one of its calls
\* adds anything to it; the other requests, in flight or arriving later, are
\* untouched by the cancellation and come to their end.
C16_Cancellation == [](C16_Abandoned) /\ [][C16_Step]_vars /\ C16_OthersEnd

\* a request was cancelled with a call on its way, that call has been
\* answered since and its answer dropped, and a later request has its result
C16_Witness ==
    \E r \in Reqs, q \in Reqs :
        /\ r < q
        /\ phase[r] = "cancelled" /\ doc[r] = 4
        /\ DOMAIN node[r] = {<<"user">>}
        /\ node[r][<<"user">>] = Done(Null)
        /\ Answered(q) /\ response[q].errors = <<>>

(* C17 *)

\* a schema file that declares User and Company, each referring to the other
Mutual(file) ==
    /\ Len(file) = 2
    /\ {file[1].name, file[2].name} = {"User", "Company"}
    /\ \A j \in 1..2 : file[j].ref # file[j].name

AllDeferred(file) == \A j \in 1..Len(file) : file[j].deferred

\* the schema files whose build must succeed: the README's, and User and
\* Company with deferred field maps in either order
C17_Buildable(file) == file = ReadmeSchemaFile \/ (Mutual(file) /\ AllDeferred(file))

C17_Resolved ==
    registry.pc = "ready" =>
        /\ registry.pos = Len(registry.file)
        /\ \A j \in 1..Len(registry.file) :
              registry.file[j].ref \in Registered(registry)
        /\ RootRefs \subseteq Registered(registry)

C17_Step ==
    /\ C17_Buildable(registry.file) => registry'.pc # "failed"
    /\ (C17_Buildable(registry.file) /\ registry.pc = "loading") =>
          ENABLED (RegisterNext \/ AttachFields)

\* C17: with User and Company referring to each other, the registry of the
\* README's schema file, and of any file that declares the two with deferred
\* field maps, in either order, is built without a failure, and in a registry
\* that is ready every type a field map refers to is registered.
C17_DeferredFieldMaps == [](C17_Resolved) /\ [][C17_Step]_vars

\* User declared first, with deferred field maps, is ready
C17_Witness ==
    /\ registry.pc = "ready"
    /\ registry.file = << Decl("User", TRUE, "Company"), Decl("Company", TRUE, "User") >>

(* C18 *)

\* the attributes an editUser call supplies besides the id
Supplied(args) == DOMAIN args \ {"id"}

\* the store's answer to the call of an editUser on a record it has
C18_StoreStep ==
    \A r \in Reqs :
        \A p \in DOMAIN node[r] :
            (/\ node[r][p].st = "pending"
             /\ InfoAt(V, DocOf(r), p).sel.name = "editUser"
             /\ HasId(db, InfoAt(V, DocOf(r), p).sel.args.id)
             /\ node'[r][p].st = "answered"
             /\ node'[r][p].resp.ok) =>
                LET args == InfoAt(V, DocOf(r), p).sel.args
                    i == IndexOfId(db, args.id)
                IN /\ Len(db') = Len(db)
                   /\ \A j \in 1..Len(db) : j # i => db'[j] = db[j]
                   /\ DOMAIN db'[i] = DOMAIN db[i] \cup Supplied(args)
                   /\ \A a \in Supplied(args) : db'[i][a] = args[a]
                   /\ \A a \in DOMAIN db[i] \ Supplied(args) : db'[i][a] = db[i][a]
                   /\ node'[r][p].resp.data = Obj(db'[i])
                   /\ nextId' = nextId

\* what an answered editUser returns is the record the store sent back
C18_Returned ==
    \A r \in Reqs :
        Answered(r) =>
            \A j \in 1..Len(DocOf(r).sels) :
                LET s == DocOf(r).sels[j]
                    p == <<s.key>>
                IN (s.name = "editUser" /\ ErrorsAt(r, p) = {}) =>
                      /\ node[r][p].val.k = "obj"
                      /\ node[r][p].val.o.id = s.args.id
                      /\ \A a \in Supplied(s.args) : node[r][p].val.o[a] = s.args[a]
                      /\ \A f \in Keys(s.sub) :
                            DataAt(response[r].data, <<s.key, f>>)
                               = AttributeOf(node[r][p].val, SelOf(s.sub, f).name)

\* C18: editUser with some of firstName, age and companyId changes, in the
\* record with that id, exactly the attributes supplied, leaves the record's
\* other attributes and every other record as they are, and returns the
\* record as updated.
C18_EditFrame == [](C18_Returned) /\ [][C18_StoreStep]_vars

\* only the first name of record 40 was supplied: its age is kept, record 23
\* is as before, and the response has the new first name and the old age
C18_Witness ==
    \E r \in Reqs :
        /\ Answered(r) /\ doc[r] = 11 /\ response[r].errors = <<>>
        /\ response[r].data = Obj([editUser |->
                                     Obj([firstName |-> Str("Steve"), age |-> Str("40")])])
        /\ \E i \in 1..Len(db) :
              /\ db[i].id = "40" /\ db[i].firstName = "Steve" /\ db[i].age = "40"
        /\ \E i \in 1..Len(db) :
              /\ db[i].id = "23" /\ db[i].firstName = "Bill" /\ db[i].age = "20"

(* C20 *)

\* the store's answer to the call of an addUser
C20_StoreStep ==
    \A r \in Reqs :
        \A p \in DOMAIN node[r] :
            (/\ node[r][p].st = "pending"
             /\ InfoAt(V, DocOf(r), p).sel.name = "addUser"
             /\ node'[r][p].st = "answered"
             /\ node'[r][p].resp.ok) =>
                LET args == InfoAt(V, DocOf(r), p).sel.args
                    rec == db'[Len(db')]
                IN /\ Len(db') = Len(db) + 1
                   /\ \A j \in 1..Len(db) : db'[j] = db[j]
                   /\ DOMAIN rec = {"id", "firstName", "age"}
                   /\ rec.firstName = args.firstName
                   /\ rec.age = args.age
                   /\ ~HasId(db, rec.id)
                   /\ node'[r][p].resp.data = Obj(rec)

\* what an answered addUser returns has the supplied first name and age and
\* no company id
C20_Returned ==
    \A r \in Reqs :
        Answered(r) =>
            \A j \in 1..Len(DocOf(r).sels) :
                LET s == DocOf(r).sels[j]
                    p == <<s.key>>
                IN (s.name = "addUser" /\ ErrorsAt(r, p) = {}) =>
                      /\ node[r][p].val.k = "obj"
                      /\ DOMAIN node[r][p].val.o = {"id", "firstName", "age"}
                      /\ node[r][p].val.o.firstName = s.args.firstName
                      /\ node[r][p].val.o.age = s.args.age
                      /\ \E i \in 1..Len(db) : db[i] = node[r][p].val.o

\* C20: the record addUser creates has exactly the first name and the age
\* supplied: a companyId argument, though the argument schema accepts it, is
\* not sent to the store, so neither the record nor the value returned has it.
C20_CompanyIdDropped == [](C20_Returned) /\ [][C20_StoreStep]_vars

\* an addUser with companyId "1" was answered: the record it created has no
\* companyId
C20_Witness ==
    \E r \in Reqs :
        /\ Answered(r) /\ doc[r] = 7 /\ response[r].errors = <<>>
        /\ "companyId" \in DOMAIN DocOf(r).sels[1].args
        /\ response[r].data.o.addUser.k = "obj"
        /\ \E i \in 1..Len(db) :
              /\ db[i].firstName = "Stephen" /\ db[i].age = "26"
              /\ "companyId" \notin DOMAIN db[i]
              /\ response[r].data.o.addUser.o.id = Str(db[i].id)

(* C19 *)

\* the songs the form has created and redirected from
Created == client.created
\* the redirect to the list page
Redirected == client'.created = client.created + 1

\* every redirect follows a re-run of the song-list query sent after the
\* song was stored
C19_RerunFirst ==
    /\ client.reruns >= client.created + (IF client.mutate = "fulfilled" THEN 1 ELSE 0)
    /\ Len(songs) >= Len(InitialSongs) + client.reruns

\* the list the list page shows has the songs created through the form
C19_Fresh ==
    Shown.k = "list" =>
        /\ Len(Shown.l) >= Len(InitialSongs) + Created
        /\ Shown.l = SubSeq(songs, 1, Len(Shown.l))

\* a redirect happens only from a fulfilled mutation, never from a failed one
C19_Step ==
    /\ Redirected => client.mutate = "fulfilled"
    /\ client'.logged # client.logged =>
          client'.page = client.page /\ client'.created = client.created

\* C19: after SongCreate's addSong mutation succeeds the song-list query is
\* re-run against the server before the redirect to the list page, so the
\* list shown after the redirect has the new song and is not the stale cached
\* list; when the mutation fails there is no redirect.
C19_RefetchBeforeRedirect ==
    [](C19_RerunFirst) /\ [](C19_Fresh) /\ [][C19_Step]_vars

(* C21 *)

\* the first element of the array whose id is the one asked for, if any
FirstWithId(array, id) ==
    LET hits == {i \in 1..Len(array) : array[i].id = id}
    IN IF hits = {} THEN Null
       ELSE Obj(array[CHOOSE i \in hits : \A j \in hits : i <= j])

\* the root field user of a query the in-memory schema executes is resolved
\* at once, without a call to any store, to the element found or to no value,
\* and the response has that element's attributes, or null, and no error
C21_Resolved ==
    \A r \in Reqs :
        (V = "memory" /\ Started(r) /\ DocOf(r).op = "query" /\ Valid(V, DocOf(r))) =>
            \A j \in 1..Len(DocOf(r).sels) :
                LET s == DocOf(r).sels[j]
                    p == <<s.key>>
                    found == FirstWithId(MemoryUsers, s.args.id)
                IN s.name = "user" =>
                      /\ node[r][p].st = "done"
                      /\ node[r][p].val = found
                      /\ invoked[r][p] = 1
                      /\ Answered(r) =>
                            /\ response[r].errors = <<>>
                            /\ IF found = Null
                               THEN response[r].data.o[s.key] = Null
                               ELSE \A f \in Keys(s.sub) :
                                       DataAt(response[r].data, <<s.key, f>>)
                                          = AttributeOf(found, SelOf(s.sub, f).name)

\* no step changes the users array, and a step of the in-memory schema
\* leaves the record store alone
C21_Step ==
    /\ memory' = memory
    /\ V = "memory" => db' = db /\ nextId' = nextId

\* C21: with the in-memory data source, user(id) resolves to the first
\* element of the users array whose id is the argument, and to no value when
\* no element has that id: the response then has user: null and no error
\* entry; no query modifies the users array.
C21_InMemoryFind == [](C21_Resolved) /\ [][C21_Step]_vars

\* user(id: "99") against the in-memory array, which has no such element:
\* the response is { user: null } without errors, the array as it was
C21_Witness ==
    \E r \in Reqs :
        /\ V = "memory" /\ Answered(r) /\ doc[r] = 2
        /\ response[r].data = Obj([user |-> Null])
        /\ response[r].errors = <<>>
        /\ memory = MemoryUsers

====
